---- MODULE Spec2Model ----
(***************************************************************************)
(* Vote submission and duplicate detection of the chili cook-off voting    *)
(* application: ChiliDatabase.submitVote / validateVote / updateChiliStats *)
(* (src/lib/supabase.ts), AdminAuth (same file), SessionManager            *)
(* (src/lib/session.ts, src/WHAT_TO_SEND_CASEY.md) and the two voting      *)
(* pages (src/app/results/page.tsx Home, src/app/vote/page.tsx).           *)
(*                                                                         *)
(* The votes table is a bag of rows (row ids are not modelled; no query of *)
(* the code depends on row order).  average_rating is kept in tenths, so   *)
(* 4.7 is the integer 47.  Times are milliseconds, as Date.now().          *)
(***************************************************************************)
EXTENDS Integers, Sequences, FiniteSets, Bags, TLC

\* ---------------------------------------------------------------- bounds
MaxVotes == 3
MaxTicks == 2
MaxTokens == 3

\* ------------------------------------------------------------- constants
\* JS undefined / null / SQL NULL
Null == "null"
FIVE_MINUTES == 5 * 60 * 1000
SESSION_DURATION == 24 * 60 * 60 * 1000
TickStep == FIVE_MINUTES

Entries == {"e1", "e2"}
SessionIds == {"s1", "s2"}
Fingerprints == {"f1", "f2"}
IpAddresses == {"ip1"}

\* Error.message values thrown by submitVote
REASON_SESSION == "You have already voted for this chili"
REASON_DEVICE == "This device has already voted for this chili"
REASON_IP == "Multiple votes detected from this network. Please wait a few minutes."
INSERT_ERROR == "voteError"
STATS_ERROR == "statsError"

\* texts the pages show
ALREADY_VOTED == "You have already voted for this chili!"
RATE_ALL == "Please rate all categories before submitting."
HOME_SUCCESS == "Vote submitted successfully!"
VOTE_PAGE_SUCCESS == "Vote submitted successfully! Thank you for voting!"
GENERIC_FAILURE == "Failed to submit vote. Please try again."

\* ----------------------------------------------------------------- state
VARIABLES
    votes,          \* table votes: a bag of rows
    chili_entries,  \* table chili_entries: entry id -> aggregate fields
    localStorage,   \* the calling browser's localStorage
    now,            \* Date.now()
    ticks,          \* number of clock steps taken (bounds the clock)
    call,           \* the last submitVote call: its argument, what isAuthenticated()
                    \* returned, and which of its persistence calls failed
    result,         \* how the last submitVote ended: "ok" or the thrown message
    checks,         \* the validator lookups the last submitVote evaluated, in order
    page,           \* the page shown: its route, the entry its rating form is for
                    \* and the message it showed last (alert or error panel)
    generated,      \* number of session tokens generated so far
    calls,          \* the submitVote calls in flight, each with its position
    entry_details,  \* table chili_entries: entry id -> descriptive and photo columns
    voting,         \* the voting flag of the mounted page (useState)
    fingerprinting  \* initFingerprint() of the page load, where its steps are told
                    \* apart: whether it is in flight, how the last computation
                    \* ended, and since the page was loaded the number of
                    \* computations and the fingerprints passed to submitVote

vars == <<votes, chili_entries, localStorage, now, ticks, call, result, checks,
          page, generated, calls, entry_details, voting, fingerprinting>>

\* ------------------------------------------------------------- AdminAuth
\* localStorage.getItem(ADMIN_SESSION_KEY) when no item is stored
NoAdminSession == [stored |-> FALSE, authenticated |-> FALSE, expires |-> 0]

\* isAuthenticated() without its check of session.expires
IsAuthenticated_NoExpiry(ls, t) ==
    IF ls.chili_admin_session = NoAdminSession THEN FALSE
    ELSE ls.chili_admin_session.authenticated

\* AdminAuth.isAuthenticated(): the value it returns
IsAuthenticated(ls, t) ==
    IF ls.chili_admin_session = NoAdminSession THEN FALSE
    ELSE IF ls.chili_admin_session.expires < t THEN FALSE
    ELSE ls.chili_admin_session.authenticated

\* AdminAuth.isAuthenticated(): localStorage after the call (an expired
\* session is removed by clearSession())
AfterIsAuthenticated(ls, t) ==
    IF ls.chili_admin_session # NoAdminSession /\ ls.chili_admin_session.expires < t
    THEN [ls EXCEPT !.chili_admin_session = NoAdminSession]
    ELSE ls

\* ------------------------------------------------------------ persistence
\* rows of the table that satisfy a filter, with their multiplicity
RowCount(rows) == BagCardinality([r \in rows |-> votes[r]])

StoredRows == BagToSet(votes)

\* .maybeSingle(): the data field.  One row: that row (here TRUE); no row:
\* null; more than one row: null together with an error object, which the
\* callers in validateVote never look at.
MaybeSingle(rows) == RowCount(rows) = 1

\* the session lookup with its .eq('chili_id', chiliId) filter left out
SessionRows_AnyEntry(chiliId, sessionId) ==
    {r \in StoredRows : r.session_id = sessionId}

SessionRows(chiliId, sessionId) ==
    {r \in StoredRows : r.session_id = sessionId /\ r.chili_id = chiliId}

FingerprintRows(chiliId, deviceFingerprint) ==
    {r \in StoredRows : r.device_fingerprint = deviceFingerprint /\ r.chili_id = chiliId}

\* the IP lookup with its .gte('created_at', fiveMinutesAgo) filter left out
RecentIpRows_NoWindow(chiliId, ipAddress, t) ==
    {r \in StoredRows : r.ip_address = ipAddress /\ r.chili_id = chiliId}

RecentIpRows(chiliId, ipAddress, t) ==
    {r \in StoredRows : r.ip_address = ipAddress /\ r.chili_id = chiliId
                        /\ r.created_at >= t - FIVE_MINUTES}

\* Outcome of one persistence call: "ok", "error" (the client resolves with
\* {data: null, error}), "throw" (the awaited call rejects).
NoFault == [session |-> "ok", fingerprint |-> "ok", ip |-> "ok",
            insert |-> "ok", read |-> "ok", write |-> "ok"]

\* ---------------------------------------------------------- validateVote
\* Result of ChiliDatabase.validateVote: allowed, reason and the lookups made.
ValidateVote(chiliId, sessionId, deviceFingerprint, ipAddress, t, fault) ==
    IF fault.session = "throw"
    THEN [allowed |-> TRUE, reason |-> Null, checks |-> <<"session">>]
    ELSE IF fault.session = "ok" /\ MaybeSingle(SessionRows(chiliId, sessionId))
    THEN [allowed |-> FALSE, reason |-> REASON_SESSION, checks |-> <<"session">>]
    ELSE IF fault.fingerprint = "throw"
    THEN [allowed |-> TRUE, reason |-> Null, checks |-> <<"session", "fingerprint">>]
    ELSE IF fault.fingerprint = "ok" /\ MaybeSingle(FingerprintRows(chiliId, deviceFingerprint))
    THEN [allowed |-> FALSE, reason |-> REASON_DEVICE, checks |-> <<"session", "fingerprint">>]
    ELSE IF ipAddress = Null
    THEN [allowed |-> TRUE, reason |-> Null, checks |-> <<"session", "fingerprint">>]
    ELSE IF fault.ip = "throw"
    THEN [allowed |-> TRUE, reason |-> Null, checks |-> <<"session", "fingerprint", "ip">>]
    ELSE IF fault.ip = "ok" /\ MaybeSingle(RecentIpRows(chiliId, ipAddress, t))
    THEN [allowed |-> FALSE, reason |-> REASON_IP, checks |-> <<"session", "fingerprint", "ip">>]
    ELSE [allowed |-> TRUE, reason |-> Null, checks |-> <<"session", "fingerprint", "ip">>]

\* ------------------------------------------------------ updateChiliStats
RECURSIVE SumRatings(_)
\* votes.reduce((sum, vote) => sum + vote.overall_rating, 0) over a bag of rows
SumRatings(b) ==
    IF b = EmptyBag THEN 0
    ELSE LET r == CHOOSE x \in BagToSet(b) : TRUE
         IN  r.overall_rating + SumRatings(b (-) SetToBag({r}))

\* the select of the ratings with its .eq('chili_id', chiliId) filter left out
VotesOf_AllEntries(table, chiliId) == table

\* the rows select('overall_rating').eq('chili_id', chiliId) returns
VotesOf(table, chiliId) ==
    LET rows == {r \in BagToSet(table) : r.chili_id = chiliId}
    IN  [r \in rows |-> table[r]]

\* Math.floor in the place of Math.round
RoundTenths_Floor(totalScore, n) == (10 * totalScore) \div n

\* Math.round(averageRating * 10), the average in tenths (round half up)
RoundTenths(totalScore, n) == (20 * totalScore + n) \div (2 * n)

\* updateChiliStats counting one vote more instead of counting the rows
UpdateChiliStats_Increment(entries, table, chiliId, fault) ==
    LET vs == VotesOf(table, chiliId)
        n == entries[chiliId].vote_count + 1
        totalScore == SumRatings(vs)
    IN  IF fault.read = "ok" /\ fault.write = "ok"
        THEN [entries EXCEPT ![chiliId] =
                 [vote_count |-> n, total_score |-> totalScore,
                  average_rating |-> RoundTenths(totalScore, n)]]
        ELSE entries

\* updateChiliStats with average_rating missing from its update
UpdateChiliStats_NoAverage(entries, table, chiliId, fault) ==
    LET vs == VotesOf(table, chiliId)
    IN  IF fault.read = "ok" /\ fault.write = "ok"
        THEN [entries EXCEPT ![chiliId].vote_count = BagCardinality(vs),
                             ![chiliId].total_score = SumRatings(vs)]
        ELSE entries

\* chili_entries after updateChiliStats(chiliId) ran against table
UpdateChiliStats(entries, table, chiliId, fault) ==
    LET vs == VotesOf(table, chiliId)
        n == BagCardinality(vs)
        totalScore == SumRatings(vs)
    IN  IF fault.read # "ok" THEN entries
        ELSE IF n > 0 /\ chiliId \in DOMAIN entries /\ fault.write = "ok"
        THEN [entries EXCEPT ![chiliId] =
                 [vote_count |-> n, total_score |-> totalScore,
                  average_rating |-> RoundTenths(totalScore, n)]]
        ELSE entries

\* ------------------------------------------------------------ submitVote
\* the row submitVote inserts; created_at is the column default
NewRow(vote, t) ==
    [chili_id |-> vote.chiliId,
     session_id |-> vote.sessionId,
     device_fingerprint |-> vote.deviceFingerprint,
     ip_address |-> vote.ipAddress,
     overall_rating |-> vote.overallRating,
     taste_rating |-> vote.categoryRatings.taste,
     presentation_rating |-> vote.categoryRatings.presentation,
     creativity_rating |-> vote.categoryRatings.creativity,
     spice_balance_rating |-> vote.categoryRatings.spiceBalance,
     created_at |-> t]

\* the insert turned into an upsert on (chili_id, session_id)
InsertRow_Upsert(table, row) ==
    LET kept == {r \in BagToSet(table) :
                    r.chili_id # row.chili_id \/ r.session_id # row.session_id}
    IN  [r \in kept |-> table[r]] (+) SetToBag({row})

\* supabase.from('votes').insert({...}): the table with the new row
InsertRow(table, row) == table (+) SetToBag({row})

\* the guard of the validator without its !isAdmin conjunct
RunsValidator_NoBypass(isAdmin, vote) == vote.deviceFingerprint # Null

\* whether submitVote calls validateVote at all
RunsValidator(isAdmin, vote) == ~isAdmin /\ vote.deviceFingerprint # Null

\* the catch of updateChiliStats rethrowing what it caught
StatsErrorThrown_Rethrown(fault) == fault.read # "ok" \/ fault.write # "ok"

\* whether an error of updateChiliStats reaches submitVote: its catch logs
\* the error and returns
StatsErrorThrown(fault) == FALSE

\* the insert's error taken for no error
InsertFails_Ignored(fault) == FALSE

\* if (voteError) throw voteError; a rejected insert leaves the try block too
InsertFails(fault) == fault.insert # "ok"

\* the entry's vote_count is not the number of its stored votes
Stale(entries, table, chiliId) ==
    /\ chiliId \in DOMAIN entries
    /\ entries[chiliId].vote_count # BagCardinality(VotesOf(table, chiliId))

\* submitVote with updateChiliStats moved into a finally block: the recompute
\* runs however the call ends
SubmitVoteCall_RecomputeAlways(ls, vote, fault) ==
    LET isAdmin == IsAuthenticated(ls, now)
        validation == ValidateVote(vote.chiliId, vote.sessionId,
                                   vote.deviceFingerprint, vote.ipAddress, now, fault)
        rejected == RunsValidator(isAdmin, vote) /\ ~validation.allowed
        table == IF ~rejected /\ fault.insert = "ok"
                 THEN InsertRow(votes, NewRow(vote, now)) ELSE votes
    IN  [localStorage |-> AfterIsAuthenticated(ls, now),
         call |-> [vote |-> vote, isAdmin |-> isAdmin, fault |-> fault,
                   recomputed |-> TRUE,
                   stale |-> Stale(chili_entries, votes, vote.chiliId)],
         votes |-> table,
         chili_entries |-> UpdateChiliStats(chili_entries, table, vote.chiliId, fault),
         result |-> IF rejected THEN validation.reason
                    ELSE IF InsertFails(fault) THEN INSERT_ERROR ELSE "ok",
         checks |-> IF RunsValidator(isAdmin, vote) THEN validation.checks ELSE <<>>]

\* ChiliDatabase.submitVote(vote) called with localStorage ls: what the call
\* leaves behind (tables, localStorage) and how it ends.  call also notes
\* whether updateChiliStats was invoked and whether the entry's aggregates
\* were behind its votes when the call began.
SubmitVoteCall(ls, vote, fault) ==
    LET isAdmin == IsAuthenticated(ls, now)
        validation == ValidateVote(vote.chiliId, vote.sessionId,
                                   vote.deviceFingerprint, vote.ipAddress, now, fault)
        table == IF fault.insert = "ok" THEN InsertRow(votes, NewRow(vote, now))
                 ELSE votes
        base == [localStorage |-> AfterIsAuthenticated(ls, now),
                 call |-> [vote |-> vote, isAdmin |-> isAdmin, fault |-> fault,
                           recomputed |-> FALSE,
                           stale |-> Stale(chili_entries, votes, vote.chiliId)],
                 votes |-> votes, chili_entries |-> chili_entries,
                 result |-> "ok", checks |-> <<>>]
    IN  IF RunsValidator(isAdmin, vote) /\ ~validation.allowed
        THEN [base EXCEPT !.result = validation.reason, !.checks = validation.checks]
        ELSE LET cs == IF RunsValidator(isAdmin, vote) THEN validation.checks ELSE <<>>
             IN  IF InsertFails(fault)
                 THEN [base EXCEPT !.result = INSERT_ERROR, !.checks = cs]
                 ELSE [base EXCEPT !.checks = cs, !.votes = table,
                          !.call.recomputed = TRUE,
                          !.result = IF StatsErrorThrown(fault) THEN STATS_ERROR ELSE "ok",
                          !.chili_entries =
                              UpdateChiliStats(chili_entries, table, vote.chiliId, fault)]

\* any caller of ChiliDatabase.submitVote(vote), one whole call
SubmitVote(vote, fault) ==
    LET r == SubmitVoteCall(localStorage, vote, fault)
    IN  /\ BagCardinality(votes) < MaxVotes
        /\ localStorage' = r.localStorage
        /\ call' = r.call
        /\ votes' = r.votes
        /\ chili_entries' = r.chili_entries
        /\ result' = r.result
        /\ checks' = r.checks
        /\ UNCHANGED <<entry_details, voting, fingerprinting,
                   now, ticks, page, generated, calls>>

\* AdminAuth.createSession()
CreateSession ==
    /\ localStorage' = [localStorage EXCEPT !.chili_admin_session =
                           [stored |-> TRUE, authenticated |-> TRUE,
                            expires |-> now + SESSION_DURATION]]
    /\ UNCHANGED <<entry_details, voting, fingerprinting,
                   votes, chili_entries, now, ticks, call, result, checks, page, generated, calls>>

\* AdminAuth.clearSession()
ClearAdminSession ==
    /\ localStorage.chili_admin_session # NoAdminSession
    /\ localStorage' = [localStorage EXCEPT !.chili_admin_session = NoAdminSession]
    /\ UNCHANGED <<entry_details, voting, fingerprinting,
                   votes, chili_entries, now, ticks, call, result, checks, page, generated, calls>>

\* the clock advances
Tick ==
    /\ ticks < MaxTicks
    /\ ticks' = ticks + 1
    /\ now' = now + TickStep
    /\ UNCHANGED <<entry_details, voting, fingerprinting,
                   votes, chili_entries, localStorage, call, result, checks, page, generated, calls>>

\* the clock advances by the lifetime of a privileged session
TickSession ==
    /\ ticks < MaxTicks
    /\ ticks' = ticks + 1
    /\ now' = now + SESSION_DURATION
    /\ UNCHANGED <<entry_details, voting, fingerprinting,
                   votes, chili_entries, localStorage, call, result, checks, page, generated,
                   calls>>

\* ------------------------------------------------------- entry deletion
\* the foreign key of votes.chili_id left without a referential action
OnDeleteCascade_NoAction(table, ids) == table

\* the votes left after the entries ids were deleted: the foreign key of
\* votes.chili_id removes the votes that reference a deleted entry
OnDeleteCascade(table, ids) ==
    LET rows == {r \in BagToSet(table) : r.chili_id \notin ids}
    IN  [r \in rows |-> table[r]]

\* the outcome of the persistence calls of a submitVote: the insert of a vote
\* whose chili_id is not an entry's id violates the foreign key
ForeignKey(entries, vote) ==
    IF vote.chiliId \in DOMAIN entries THEN NoFault
    ELSE [NoFault EXCEPT !.insert = "error"]

\* supabase.from('chili_entries').delete() with .eq('id', id) or .in('id', ids)
DeleteEntries(ids) ==
    /\ chili_entries' = [e \in DOMAIN chili_entries \ ids |-> chili_entries[e]]
    /\ entry_details' = [e \in DOMAIN entry_details \ ids |-> entry_details[e]]
    /\ votes' = OnDeleteCascade(votes, ids)
    /\ UNCHANGED <<localStorage, now, ticks, call, result, checks, page, generated, calls,
                   voting, fingerprinting>>

\* ChiliDatabase.deleteChiliEntry(id)
DeleteChiliEntry(id) == DeleteEntries({id})

\* ChiliDatabase.bulkDeleteChiliEntries(ids)
BulkDeleteChiliEntries(ids) == DeleteEntries(ids)

\* .ilike('name', 'Test%')
IsTestName(name) == name \in {"Test Chili"}

\* ChiliDatabase.deleteTestEntries(): nothing is deleted when no entry matches
DeleteTestEntries ==
    LET ids == {e \in DOMAIN entry_details : IsTestName(entry_details[e].name)}
    IN  IF ids = {} THEN UNCHANGED vars ELSE BulkDeleteChiliEntries(ids)

\* ------------------------------------------------ entry update routes
\* the columns of a chili_entries row that hold its aggregates
AggregateColumns == {"vote_count", "total_score", "average_rating"}

\* an object with the properties of obj whose keys are in keys
Pick(obj, keys) == [k \in DOMAIN obj \cap keys |-> obj[k]]

\* entryUpdateSchema.parse(body): z.object() drops the keys it does not name
\* (of the schema's text fields the model carries name and description)
EntryUpdateSchema(body) == Pick(body, {"entryCode", "name", "description"})

\* updateData = { ...updates }: every property of the request reaches the update
UpdateData_Spread(updates) == Pick(updates, DOMAIN updates \ {"entryCode"})

\* updateData of PATCH /api/update-entry: built key by key from the fields the
\* route names (the values drawn are already in their sanitized form)
UpdateData(updates) == Pick(updates, {"name", "description"})

\* .update(values).eq('id', id): the columns named in values are written, the
\* others keep their value
UpdateColumns(row, values) ==
    [c \in DOMAIN row |-> IF c \in DOMAIN values THEN values[c] ELSE row[c]]

\* supabase.from('chili_entries').update(values).eq('id', id)
UpdateEntryRow(id, values) ==
    /\ chili_entries' = [chili_entries EXCEPT ![id] = UpdateColumns(@, values)]
    /\ entry_details' = [entry_details EXCEPT ![id] = UpdateColumns(@, values)]
    /\ UNCHANGED <<votes, localStorage, now, ticks, call, result, checks, page, generated,
                   calls, voting, fingerprinting>>

\* PATCH /api/update-entry with the request body; after the deadline (403) and
\* for a code that is no entry's (404) nothing is written
UpdateEntry(body, beforeDeadline) ==
    LET validatedData == EntryUpdateSchema(body)
    IN  IF beforeDeadline /\ validatedData.entryCode \in DOMAIN chili_entries
        THEN UpdateEntryRow(validatedData.entryCode, UpdateData(validatedData))
        ELSE UNCHANGED vars

\* PATCH /api/update-entry in its copy that reads the body without a schema
UpdateEntryUnvalidated(body, beforeDeadline) ==
    IF beforeDeadline /\ body.entryCode \in DOMAIN chili_entries
    THEN UpdateEntryRow(body.entryCode, UpdateData(body))
    ELSE UNCHANGED vars

\* POST /api/upload-photo for a valid file: after the deadline (403), for a
\* code that is no entry's (404) and when the storage upload fails (500)
\* nothing is written
UploadPhoto(entryCode, photoUrl, beforeDeadline, uploaded) ==
    IF beforeDeadline /\ entryCode \in DOMAIN chili_entries /\ uploaded
    THEN UpdateEntryRow(entryCode, [photo_url |-> photoUrl, photo_uploaded_at |-> now])
    ELSE UNCHANGED vars

\* ----------------------------------------------------- interleaved calls
\* submitVote calls running at the same time (two tabs, two requests): each
\* awaited persistence call of submitVote is one step
Procs == {"p1", "p2"}

\* a slot in which no call was started yet
IdleCall ==
    [pc |-> "idle",
     vote |-> [chiliId |-> Null, sessionId |-> Null, deviceFingerprint |-> Null,
               ipAddress |-> Null, overallRating |-> 0,
               categoryRatings |-> [taste |-> 0, presentation |-> 0, creativity |-> 0,
                                    spiceBalance |-> 0]],
     isAdmin |-> FALSE, result |-> "none",
     seen |-> [n |-> 0, totalScore |-> 0]]

\* calls that have not reached their insert yet
BeforeInsert == {p \in Procs : calls[p].pc \in {"session", "fingerprint", "ip", "insert"}}

\* submitVote is entered: isAuthenticated() is evaluated, the first await follows
Begin(p, vote) ==
    /\ calls[p].pc \in {"idle", "done"}
    /\ BagCardinality(votes) + Cardinality(BeforeInsert) < MaxVotes
    /\ LET isAdmin == IsAuthenticated(localStorage, now)
       IN  calls' = [calls EXCEPT ![p] =
                        [pc |-> IF RunsValidator(isAdmin, vote) THEN "session" ELSE "insert",
                         vote |-> vote, isAdmin |-> isAdmin, result |-> "none",
                         seen |-> [n |-> 0, totalScore |-> 0]]]
    /\ localStorage' = AfterIsAuthenticated(localStorage, now)
    /\ UNCHANGED <<entry_details, voting, fingerprinting,
                   votes, chili_entries, now, ticks, call, result, checks, page, generated>>

\* a call ends with the validator's reason
Rejected(p, reason) == [calls EXCEPT ![p].pc = "done", ![p].result = reason]

\* validateVote: the session lookup resolves
SessionCheck(p) ==
    /\ calls[p].pc = "session"
    /\ calls' = IF MaybeSingle(SessionRows(calls[p].vote.chiliId, calls[p].vote.sessionId))
                THEN Rejected(p, REASON_SESSION)
                ELSE [calls EXCEPT ![p].pc = "fingerprint"]
    /\ UNCHANGED <<entry_details, voting, fingerprinting,
                   votes, chili_entries, localStorage, now, ticks, call, result, checks,
                   page, generated>>

\* validateVote: the fingerprint lookup resolves
FingerprintCheck(p) ==
    /\ calls[p].pc = "fingerprint"
    /\ calls' = IF MaybeSingle(FingerprintRows(calls[p].vote.chiliId,
                                               calls[p].vote.deviceFingerprint))
                THEN Rejected(p, REASON_DEVICE)
                ELSE [calls EXCEPT ![p].pc =
                         IF calls[p].vote.ipAddress # Null THEN "ip" ELSE "insert"]
    /\ UNCHANGED <<entry_details, voting, fingerprinting,
                   votes, chili_entries, localStorage, now, ticks, call, result, checks,
                   page, generated>>

\* validateVote: the recent-IP lookup resolves
IpCheck(p) ==
    /\ calls[p].pc = "ip"
    /\ calls' = IF MaybeSingle(RecentIpRows(calls[p].vote.chiliId, calls[p].vote.ipAddress, now))
                THEN Rejected(p, REASON_IP)
                ELSE [calls EXCEPT ![p].pc = "insert"]
    /\ UNCHANGED <<entry_details, voting, fingerprinting,
                   votes, chili_entries, localStorage, now, ticks, call, result, checks,
                   page, generated>>

\* submitVote: the insert resolves
InsertVote(p) ==
    /\ calls[p].pc = "insert"
    /\ votes' = InsertRow(votes, NewRow(calls[p].vote, now))
    /\ calls' = [calls EXCEPT ![p].pc = "read"]
    /\ UNCHANGED <<entry_details, voting, fingerprinting,
                   chili_entries, localStorage, now, ticks, call, result, checks, page,
                   generated>>

\* the count taken as the rows read and the vote being submitted
VoteCount_PlusOne(vs) == BagCardinality(vs) + 1

\* vote_count: votes.length
VoteCount(vs) == BagCardinality(vs)

\* updateChiliStats: the select of the entry's ratings resolves
ReadRatings(p) ==
    /\ calls[p].pc = "read"
    /\ LET vs == VotesOf(votes, calls[p].vote.chiliId)
       IN  calls' = [calls EXCEPT ![p].pc = "write",
                                  ![p].seen = [n |-> VoteCount(vs),
                                               totalScore |-> SumRatings(vs)]]
    /\ UNCHANGED <<entry_details, voting, fingerprinting,
                   votes, chili_entries, localStorage, now, ticks, call, result, checks,
                   page, generated>>

\* updateChiliStats: the update of the entry resolves; submitVote returns
WriteStats(p) ==
    /\ calls[p].pc = "write"
    /\ LET seen == calls[p].seen
       IN  chili_entries' =
               IF seen.n > 0
               THEN [chili_entries EXCEPT ![calls[p].vote.chiliId] =
                        [vote_count |-> seen.n, total_score |-> seen.totalScore,
                         average_rating |-> RoundTenths(seen.totalScore, seen.n)]]
               ELSE chili_entries
    /\ calls' = [calls EXCEPT ![p].pc = "done", ![p].result = "ok"]
    /\ UNCHANGED <<entry_details, voting, fingerprinting,
                   votes, localStorage, now, ticks, call, result, checks, page, generated>>

\* submitVote: the insert resolves, later than every insert before it
\* (created_at is the time of the insert)
InsertVoteLater(p) ==
    /\ calls[p].pc = "insert"
    /\ now' = now + 1
    /\ votes' = InsertRow(votes, NewRow(calls[p].vote, now'))
    /\ calls' = [calls EXCEPT ![p].pc = "read"]
    /\ UNCHANGED <<chili_entries, localStorage, ticks, call, result, checks, page,
                   generated, entry_details, voting, fingerprinting>>

\* updateChiliStats: the select of the ratings fails; the catch logs the
\* error and submitVote returns
ReadError(p) ==
    /\ calls[p].pc = "read"
    /\ calls' = [calls EXCEPT ![p].pc = "done", ![p].result = "ok"]
    /\ UNCHANGED <<votes, chili_entries, localStorage, now, ticks, call, result, checks,
                   page, generated, entry_details, voting, fingerprinting>>

\* updateChiliStats: the update of the entry fails; the catch logs the error
\* and submitVote returns
WriteError(p) ==
    /\ calls[p].pc = "write"
    /\ calls' = [calls EXCEPT ![p].pc = "done", ![p].result = "ok"]
    /\ UNCHANGED <<votes, chili_entries, localStorage, now, ticks, call, result, checks,
                   page, generated, entry_details, voting, fingerprinting>>

\* ---------------------------------------------------------------- inputs
Ratings(o, c) ==
    [overallRating |-> o,
     categoryRatings |-> [taste |-> c, presentation |-> c, creativity |-> c, spiceBalance |-> c]]

Submission(e, s, f, ip, o, c) ==
    [chiliId |-> e, sessionId |-> s, deviceFingerprint |-> f, ipAddress |-> ip,
     overallRating |-> o,
     categoryRatings |-> [taste |-> c, presentation |-> c, creativity |-> c, spiceBalance |-> c]]

\* submissions of the duplicate-detection specification: every identity
\* bundle for the first entry, one voter with and without fingerprint and
\* address for the second
Submissions ==
    {Submission("e1", s, f, ip, 4, 4) :
        s \in SessionIds, f \in Fingerprints \cup {Null}, ip \in IpAddresses \cup {Null}}
    \cup {Submission("e2", "s1", "f1", "ip1", 4, 4), Submission("e2", "s1", Null, Null, 4, 4)}

\* -------------------------------------------------------- SessionManager
\* the n-th generated token `session_${Date.now()}_${random}`; tokens do not repeat
Token(n) == <<"s1", "s2", "s3", "s4", "s5">>[n]

\* result.visitorId of FingerprintJS on the device the browser runs on
VisitorId == "f1"

\* getSessionId() without its `if (!sessionId)`: a token is generated and
\* stored at every call
AfterGetSessionId_AlwaysNew(ls, n) ==
    [ls EXCEPT !.chili_voter_session = Token(n + 1)]

\* SessionManager.getSessionId(): localStorage after the call; the value
\* returned is its chili_voter_session
AfterGetSessionId(ls, n) ==
    IF ls.chili_voter_session = Null
    THEN [ls EXCEPT !.chili_voter_session = Token(n + 1)]
    ELSE ls

\* SessionManager.hasVoted(chiliId)
HasVoted(ls, chiliId) ==
    \E i \in 1..Len(ls.voted_chilis) : ls.voted_chilis[i] = chiliId

\* markAsVoted without its localStorage.setItem
MarkAsVoted_NotStored(ls, chiliId) == ls

\* SessionManager.markAsVoted(chiliId)
MarkAsVoted(ls, chiliId) ==
    IF HasVoted(ls, chiliId) THEN ls
    ELSE [ls EXCEPT !.voted_chilis = Append(@, chiliId)]

\* SessionManager.initFingerprint(), the fingerprinting library succeeding
InitFingerprint(ls) == [ls EXCEPT !.device_fingerprint = VisitorId]

\* SessionManager.getFingerprint(): localStorage after the call; the value
\* returned is its device_fingerprint
AfterGetFingerprint(ls) ==
    IF ls.device_fingerprint = Null THEN InitFingerprint(ls) ELSE ls

\* ----------------------------------------------------------------- pages
\* a rating form still has a category at its initial value 0
Unrated(ratings) ==
    \/ ratings.overallRating = 0
    \/ ratings.categoryRatings.taste = 0
    \/ ratings.categoryRatings.presentation = 0
    \/ ratings.categoryRatings.creativity = 0
    \/ ratings.categoryRatings.spiceBalance = 0

\* the submission a page builds from its form
PageSubmission(chiliId, sessionId, deviceFingerprint, ratings) ==
    [chiliId |-> chiliId, sessionId |-> sessionId,
     deviceFingerprint |-> deviceFingerprint, ipAddress |-> Null,
     overallRating |-> ratings.overallRating,
     categoryRatings |-> ratings.categoryRatings]

\* the catch of Home.submitVote showing the fixed text whatever the error
HomeMessage_Generic(res) ==
    IF res = "ok" THEN HOME_SUCCESS ELSE GENERIC_FAILURE

\* what Home.submitVote shows when submitVote ended with res: the success
\* text, or error.message (every error submitVote throws without a failing
\* persistence call is an Error carrying the validator's reason)
HomeMessage(res) ==
    IF res = "ok" THEN HOME_SUCCESS ELSE res

\* what VotePageContent.submitVote shows when submitVote ended with res
VotePageMessage(res) ==
    IF res = "ok" THEN VOTE_PAGE_SUCCESS ELSE GENERIC_FAILURE

\* the home page is mounted: useEffect runs initFingerprint()
LoadHome ==
    /\ page' = [route |-> "/", chili |-> Null, message |-> Null]
    /\ localStorage' = InitFingerprint(localStorage)
    /\ UNCHANGED <<entry_details, voting, fingerprinting,
                   votes, chili_entries, now, ticks, call, result, checks, generated, calls>>

\* Home.handleVoteClick(chili)
HandleVoteClick(chiliId) ==
    /\ page.route = "/"
    /\ IF HasVoted(localStorage, chiliId)
       THEN page' = [page EXCEPT !.message = ALREADY_VOTED]
       ELSE page' = [page EXCEPT !.chili = chiliId, !.message = Null]
    /\ UNCHANGED <<entry_details, voting, fingerprinting,
                   votes, chili_entries, localStorage, now, ticks, call, result, checks,
                   generated, calls>>

\* a page's submitVote handler once the form is complete: deviceFingerprint
\* is what the page passes on (ls holds the session id already), fault the
\* outcome of the persistence calls of its submitVote
PageSubmit(ls, deviceFingerprint, ratings, mountsHome, fault) ==
    LET vote == PageSubmission(page.chili, ls.chili_voter_session, deviceFingerprint, ratings)
        r == SubmitVoteCall(ls, vote, fault)
    IN  /\ call' = r.call
        /\ votes' = r.votes
        /\ chili_entries' = r.chili_entries
        /\ result' = r.result
        /\ checks' = r.checks
        /\ IF r.result = "ok"
           THEN /\ localStorage' =
                     IF mountsHome
                     THEN InitFingerprint(MarkAsVoted(r.localStorage, page.chili))
                     ELSE MarkAsVoted(r.localStorage, page.chili)
                /\ page' = [route |-> "/", chili |-> Null,
                            message |-> IF mountsHome THEN VotePageMessage(r.result)
                                        ELSE HomeMessage(r.result)]
           ELSE /\ localStorage' = r.localStorage
                /\ page' = [page EXCEPT !.message =
                                IF mountsHome THEN VotePageMessage(r.result)
                                ELSE HomeMessage(r.result)]
        /\ generated' = IF localStorage.chili_voter_session = Null
                        THEN generated + 1 ELSE generated
        /\ UNCHANGED <<entry_details, voting, now, ticks, calls>>

\* Home.submitVote(), its persistence calls ending as fault says
HomeSubmit(ratings, fault) ==
    /\ page.route = "/"
    /\ page.chili # Null
    /\ BagCardinality(votes) < MaxVotes
    /\ localStorage.chili_voter_session # Null \/ generated < MaxTokens
    /\ IF Unrated(ratings)
       THEN /\ page' = [page EXCEPT !.message = RATE_ALL]
            /\ UNCHANGED <<entry_details, voting, fingerprinting,
                   votes, chili_entries, localStorage, now, ticks, call, result,
                           checks, generated, calls>>
       ELSE LET ls == AfterGetFingerprint(AfterGetSessionId(localStorage, generated))
            IN  /\ PageSubmit(ls, ls.device_fingerprint, ratings, FALSE, fault)
                /\ UNCHANGED fingerprinting

\* Home.submitVote()
HomeSubmitVote(ratings) == HomeSubmit(ratings, NoFault)

\* the vote page is opened for an entry: loadChili()
LoadVotePage(chiliId) ==
    /\ page' = IF HasVoted(localStorage, chiliId)
               THEN [route |-> "/vote", chili |-> Null, message |-> ALREADY_VOTED]
               ELSE [route |-> "/vote", chili |-> chiliId, message |-> Null]
    /\ UNCHANGED <<entry_details, voting, fingerprinting,
                   votes, chili_entries, localStorage, now, ticks, call, result, checks,
                   generated, calls>>

\* VotePageContent.submitVote(), its persistence calls ending as fault says:
\* no fingerprint is passed; success ends with router.push('/'), which mounts
\* the home page
VotePageSubmit(ratings, fault) ==
    /\ page.route = "/vote"
    /\ page.chili # Null
    /\ BagCardinality(votes) < MaxVotes
    /\ localStorage.chili_voter_session # Null \/ generated < MaxTokens
    /\ IF Unrated(ratings)
       THEN /\ page' = [page EXCEPT !.message = RATE_ALL]
            /\ UNCHANGED <<entry_details, voting, fingerprinting,
                   votes, chili_entries, localStorage, now, ticks, call, result,
                           checks, generated, calls>>
       ELSE /\ PageSubmit(AfterGetSessionId(localStorage, generated), Null, ratings, TRUE,
                           fault)
            /\ UNCHANGED fingerprinting

\* VotePageContent.submitVote()
VotePageSubmitVote(ratings) == VotePageSubmit(ratings, NoFault)

\* SessionManager.clearSession(): the session id and the voted cache are removed
ClearSession ==
    /\ localStorage' = [localStorage EXCEPT !.chili_voter_session = Null,
                                            !.voted_chilis = <<>>]
    /\ localStorage' # localStorage
    /\ UNCHANGED <<entry_details, voting, fingerprinting,
                   votes, chili_entries, now, ticks, call, result, checks, page, generated, calls>>

\* the user clears the browser's storage: localStorage.clear()
ClearStorage ==
    /\ localStorage' = [chili_voter_session |-> Null, voted_chilis |-> <<>>,
                        device_fingerprint |-> Null, chili_admin_session |-> NoAdminSession]
    /\ localStorage' # localStorage
    /\ UNCHANGED <<entry_details, voting, fingerprinting,
                   votes, chili_entries, now, ticks, call, result, checks, page, generated, calls>>

\* ------------------------------------------------ fingerprint in flight
\* no initFingerprint() awaited, nothing computed or passed on yet
NotFingerprinting ==
    [inFlight |-> FALSE, last |-> Null, computed |-> 0, carried |-> {}]

\* generateFallbackFingerprint() on the device the browser runs on
FallbackId == "fb"

\* how the fingerprinting library can end: fp.get() resolves, or load() or
\* get() rejects
Outcomes == {"ok", "failed"}

\* what initFingerprint() stores: result.visitorId, or the fallback in its catch
Computed(outcome) == IF outcome = "ok" THEN VisitorId ELSE FallbackId

\* getFingerprint() reading past the stored fingerprint: it computes at every call
Recomputes_Always(ls) == TRUE

\* whether getFingerprint() runs initFingerprint(): `if (!fingerprint)`
Recomputes(ls) == ls.device_fingerprint = Null

\* the home page is mounted: useEffect starts initFingerprint() and does not
\* await it
MountHome ==
    /\ page' = [route |-> "/", chili |-> Null, message |-> Null]
    /\ fingerprinting' = [NotFingerprinting EXCEPT !.inFlight = TRUE]
    /\ UNCHANGED <<votes, chili_entries, localStorage, now, ticks, call, result, checks,
                   generated, calls, entry_details, voting>>

\* the initFingerprint() of the page load ends: localStorage.setItem
InitFingerprintEnds(outcome) ==
    /\ fingerprinting.inFlight
    /\ localStorage' = [localStorage EXCEPT !.device_fingerprint = Computed(outcome)]
    /\ fingerprinting' = [fingerprinting EXCEPT !.inFlight = FALSE, !.last = outcome,
                                                !.computed = @ + 1]
    /\ UNCHANGED <<votes, chili_entries, now, ticks, call, result, checks, page, generated,
                   calls, entry_details, voting>>

\* Home.submitVote() with its `await SessionManager.getFingerprint()`, which
\* runs initFingerprint() itself when no fingerprint is stored
HomeSubmitFingerprinted(ratings, outcome) ==
    /\ page.route = "/"
    /\ page.chili # Null
    /\ BagCardinality(votes) < MaxVotes
    /\ localStorage.chili_voter_session # Null \/ generated < MaxTokens
    /\ IF Unrated(ratings)
       THEN /\ page' = [page EXCEPT !.message = RATE_ALL]
            /\ UNCHANGED <<votes, chili_entries, localStorage, now, ticks, call, result,
                           checks, generated, calls, entry_details, voting, fingerprinting>>
       ELSE LET ids == AfterGetSessionId(localStorage, generated)
                computes == Recomputes(ids)
                ls == IF computes
                      THEN [ids EXCEPT !.device_fingerprint = Computed(outcome)]
                      ELSE ids
                passed == IF ls.device_fingerprint = Null THEN FallbackId
                          ELSE ls.device_fingerprint
            IN  /\ PageSubmit(ls, passed, ratings, FALSE, NoFault)
                /\ fingerprinting' =
                       [fingerprinting EXCEPT
                           !.last = IF computes THEN outcome ELSE @,
                           !.computed = IF computes THEN @ + 1 ELSE @,
                           !.carried = @ \cup {passed}]

\* ------------------------------------------------- submissions in flight
\* the Submit Vote button never disabled
Disabled_Never(flag) == FALSE

\* <button onClick={submitVote} disabled={voting}>
Disabled(flag) == flag

\* calls that were started and whose handler has not finished
InFlight == {p \in Procs : calls[p].pc # "idle"}

\* a click on Submit Vote: the handler runs up to the first await inside
\* submitVote.  The home page passes the fingerprint, the vote page none.
ClickSubmit(p, ratings) ==
    /\ page.chili # Null
    /\ ~Disabled(voting)
    /\ calls[p].pc = "idle"
    /\ BagCardinality(votes) + Cardinality(BeforeInsert) < MaxVotes
    /\ localStorage.chili_voter_session # Null \/ generated < MaxTokens
    /\ IF Unrated(ratings)
       THEN /\ page' = [page EXCEPT !.message = RATE_ALL]
            /\ UNCHANGED <<votes, chili_entries, localStorage, now, ticks, call, result,
                           checks, generated, calls, entry_details, voting, fingerprinting>>
       ELSE LET ids == AfterGetSessionId(localStorage, generated)
                ls == IF page.route = "/" THEN AfterGetFingerprint(ids) ELSE ids
                vote == PageSubmission(page.chili, ls.chili_voter_session,
                                       IF page.route = "/" THEN ls.device_fingerprint
                                       ELSE Null,
                                       ratings)
                isAdmin == IsAuthenticated(ls, now)
            IN  /\ voting' = TRUE
                /\ calls' = [calls EXCEPT ![p] =
                                [pc |-> IF RunsValidator(isAdmin, vote) THEN "session"
                                        ELSE "insert",
                                 vote |-> vote, isAdmin |-> isAdmin, result |-> "none",
                                 seen |-> [n |-> 0, totalScore |-> 0]]]
                /\ localStorage' = AfterIsAuthenticated(ls, now)
                /\ generated' = IF localStorage.chili_voter_session = Null
                                THEN generated + 1 ELSE generated
                /\ UNCHANGED <<votes, chili_entries, now, ticks, call, result, checks, page,
                               entry_details, fingerprinting>>

\* submitVote: the insert resolves with an error
InsertError(p) ==
    /\ calls[p].pc = "insert"
    /\ calls' = [calls EXCEPT ![p].pc = "done", ![p].result = INSERT_ERROR]
    /\ UNCHANGED <<votes, chili_entries, localStorage, now, ticks, call, result, checks,
                   page, generated, entry_details, voting, fingerprinting>>

\* the handler continues after `await ChiliDatabase.submitVote(submission)`:
\* markAsVoted and the success alert, or the catch; finally setVoting(false)
SubmitEnds(p) ==
    /\ calls[p].pc = "done"
    /\ LET res == calls[p].result
           e == calls[p].vote.chiliId
       IN  IF page.route = "/"
           THEN /\ localStorage' = IF res = "ok" THEN MarkAsVoted(localStorage, e)
                                   ELSE localStorage
                /\ page' = IF res = "ok"
                           THEN [page EXCEPT !.chili = Null, !.message = HomeMessage(res)]
                           ELSE [page EXCEPT !.message = HomeMessage(res)]
           ELSE /\ localStorage' = IF res = "ok"
                                   THEN InitFingerprint(MarkAsVoted(localStorage, e))
                                   ELSE localStorage
                /\ page' = IF res = "ok"
                           THEN [route |-> "/", chili |-> Null,
                                 message |-> VotePageMessage(res)]
                           ELSE [page EXCEPT !.message = VotePageMessage(res)]
    /\ voting' = FALSE
    /\ calls' = [calls EXCEPT ![p] = IdleCall]
    /\ UNCHANGED <<votes, chili_entries, now, ticks, call, result, checks, generated,
                   entry_details, fingerprinting>>

\* Cancel on the home page's form: setSelectedChili(null)
CancelVote ==
    /\ page.route = "/"
    /\ page.chili # Null
    /\ page' = [page EXCEPT !.chili = Null]
    /\ UNCHANGED <<votes, chili_entries, localStorage, now, ticks, call, result, checks,
                   generated, calls, entry_details, voting, fingerprinting>>

\* a page is opened while the page before it awaits nothing
OpenHome == ~voting /\ LoadHome

OpenVotePage(chiliId) == ~voting /\ LoadVotePage(chiliId)

\* what the rating forms of the pages can hold
PageRatings == {Ratings(4, 4), Ratings(0, 4)}

\* a server-side caller that passes the browser's identity and the request
\* address
NetworkSubmissions ==
    {Submission("e1", Token(1), VisitorId, ip, 4, 4) : ip \in IpAddresses}

\* the descriptive columns the entries are created with: the first entry is a
\* test entry (its name starts with "Test")
EntryDetails(e) ==
    [name |-> IF e = "e1" THEN "Test Chili" ELSE "Texas Red",
     description |-> "d0", photo_url |-> Null, photo_uploaded_at |-> Null]

Init ==
    /\ votes = EmptyBag
    /\ chili_entries = [e \in Entries |-> [vote_count |-> 0, total_score |-> 0, average_rating |-> 0]]
    /\ localStorage = [chili_voter_session |-> Null, voted_chilis |-> <<>>,
                       device_fingerprint |-> Null, chili_admin_session |-> NoAdminSession]
    /\ now = 0
    /\ ticks = 0
    /\ call = [vote |-> Submission(Null, Null, Null, Null, 0, 0), isAdmin |-> FALSE,
               fault |-> NoFault, recomputed |-> FALSE, stale |-> FALSE]
    /\ result = "none"
    /\ checks = <<>>
    /\ page = [route |-> "/", chili |-> Null, message |-> Null]
    /\ generated = 0
    /\ calls = [p \in Procs |-> IdleCall]
    /\ entry_details = [e \in Entries |-> EntryDetails(e)]
    /\ voting = FALSE
    /\ fingerprinting = NotFingerprinting

Next ==
    \/ \E vote \in Submissions : SubmitVote(vote, NoFault)
    \/ CreateSession
    \/ ClearAdminSession

Spec == Init /\ [][Next]_vars

\* ------------------------------------------------- further specifications
\* The clock: two voters on two devices, with or without the network's
\* address, while time passes in steps of the IP window.
TimedSubmissions ==
    {Submission("e1", id[1], id[2], ip, 4, 4) :
        id \in {<<"s1", "f1">>, <<"s2", "f2">>}, ip \in IpAddresses \cup {Null}}
    \cup {Submission("e2", "s1", "f1", "ip1", 4, 4)}

NextTime ==
    \/ \E vote \in TimedSubmissions : SubmitVote(vote, NoFault)
    \/ CreateSession
    \/ ClearAdminSession
    \/ Tick

SpecTime == Init /\ [][NextTime]_vars

\* Persistence failures: at most one call of a submitVote fails, by resolving
\* with an error object or by rejecting.
Faults ==
    {NoFault}
    \cup {[NoFault EXCEPT ![c] = o] :
            c \in {"session", "fingerprint", "ip"}, o \in {"error", "throw"}}
    \cup {[NoFault EXCEPT ![c] = "error"] : c \in {"insert", "read", "write"}}

\* submissions for one entry, with and without fingerprint and address
FaultSubmissions ==
    {Submission("e1", sid, f, ip, 4, 4) :
        sid \in SessionIds, f \in {"f1", Null}, ip \in IpAddresses \cup {Null}}

NextFaults ==
    \/ \E vote \in FaultSubmissions, fault \in Faults : SubmitVote(vote, fault)
    \/ CreateSession
    \/ ClearAdminSession

SpecFaults == Init /\ [][NextFaults]_vars

\* Failures around the aggregates: the insert, the read of the ratings or the
\* write of the aggregates fails (resolving with an error or rejecting).
StatsFaults ==
    {NoFault}
    \cup {[NoFault EXCEPT ![c] = o] :
            c \in {"insert", "read", "write"}, o \in {"error", "throw"}}

\* two voters rating the first entry 2 or 5, one of them the second entry
StatsSubmissions ==
    {Submission("e1", id[1], id[2], Null, o, 3) :
        id \in {<<"s1", "f1">>, <<"s2", "f2">>}, o \in {2, 5}}
    \cup {Submission("e2", "s1", "f1", Null, 5, 3)}

NextStats ==
    \/ \E vote \in StatsSubmissions, fault \in StatsFaults : SubmitVote(vote, fault)
    \/ CreateSession
    \/ ClearAdminSession

SpecStats == Init /\ [][NextStats]_vars

\* Entrants editing their entries while votes come in: the request bodies
\* name descriptive fields, and some name the aggregate columns as well.
EntryNames == {"Chili B"}
PhotoUrls == {"photo1"}

UpdateBodies ==
    {[entryCode |-> e, name |-> n] : e \in Entries \cup {"e9"}, n \in EntryNames}
    \cup {[entryCode |-> e, description |-> "d1"] : e \in Entries}
    \cup {[entryCode |-> e, name |-> n, vote_count |-> 0, total_score |-> 0,
           average_rating |-> 50] : e \in Entries, n \in EntryNames}

\* the write of a recompute fails, or nothing does
EntryFaults == {NoFault, [NoFault EXCEPT !.write = "error"]}

\* two voters rating the first entry, one of them the second entry as well
EntrySubmissions ==
    {Submission("e1", "s1", "f1", Null, o, 3) : o \in {2, 5}}
    \cup {Submission("e1", "s2", "f2", Null, 5, 3), Submission("e2", "s1", "f1", Null, 5, 3)}

NextEntries ==
    \/ \E vote \in EntrySubmissions, fault \in EntryFaults : SubmitVote(vote, fault)
    \/ \E body \in UpdateBodies, beforeDeadline \in BOOLEAN :
            UpdateEntry(body, beforeDeadline)
    \/ \E body \in UpdateBodies, beforeDeadline \in BOOLEAN :
            UpdateEntryUnvalidated(body, beforeDeadline)
    \/ \E e \in Entries, url \in PhotoUrls, beforeDeadline \in BOOLEAN, uploaded \in BOOLEAN :
            UploadPhoto(e, url, beforeDeadline, uploaded)

SpecEntries == Init /\ [][NextEntries]_vars

\* Interleaved calls: two voters rating an entry 2 or 5, one of them also the
\* second entry; no privileged session.
ConcurrentSubmissions ==
    {Submission("e1", id[1], id[2], Null, o, 3) :
        id \in {<<"s1", "f1">>, <<"s2", "f2">>}, o \in {2, 5}}
    \cup {Submission("e2", "s1", "f1", "ip1", 5, 3)}

NextConcurrent ==
    \/ \E p \in Procs, vote \in ConcurrentSubmissions : Begin(p, vote)
    \/ \E p \in Procs : SessionCheck(p)
    \/ \E p \in Procs : FingerprintCheck(p)
    \/ \E p \in Procs : IpCheck(p)
    \/ \E p \in Procs : InsertVote(p)
    \/ \E p \in Procs : ReadRatings(p)
    \/ \E p \in Procs : WriteStats(p)

SpecConcurrent == Init /\ [][NextConcurrent]_vars

\* The privileged session over days: login, logout, page reloads, and votes
\* with and without fingerprint as probes of isAuthenticated().
AdminSubmissions ==
    {Submission("e1", "s1", "f1", "ip1", 4, 4), Submission("e1", "s2", Null, Null, 4, 4),
     Submission("e2", "s1", "f1", Null, 4, 4)}

NextAdmin ==
    \/ \E vote \in AdminSubmissions : SubmitVote(vote, NoFault)
    \/ CreateSession
    \/ ClearAdminSession
    \/ LoadHome
    \/ TickSession

SpecAdmin == Init /\ [][NextAdmin]_vars

\* Ratings: every overall rating of the scale, from two voters.
RatedSubmissions ==
    {Submission(e, id[1], id[2], Null, o, 3) :
        e \in Entries, id \in {<<"s1", "f1">>, <<"s2", "f2">>}, o \in 1..5}

NextRatings ==
    \/ \E vote \in RatedSubmissions : SubmitVote(vote, NoFault)
    \/ CreateSession
    \/ ClearAdminSession

SpecRatings == Init /\ [][NextRatings]_vars

\* Callers that hand submitVote ratings as they are: 0 is a rating that was
\* never set (the pages' initial value), 6 lies above the scale.
UncheckedSubmissions ==
    {Submission("e1", sid, "f1", Null, o, c) :
        sid \in SessionIds, o \in {0, 3, 6}, c \in {0, 3, 6}}

NextUnchecked ==
    \/ \E vote \in UncheckedSubmissions : SubmitVote(vote, NoFault)
    \/ CreateSession
    \/ ClearAdminSession

SpecUnchecked == Init /\ [][NextUnchecked]_vars

\* One browser with its pages and storage, next to the server-side callers.
NextClient ==
    \/ LoadHome
    \/ \E e \in Entries : HandleVoteClick(e)
    \/ \E ratings \in PageRatings : HomeSubmitVote(ratings)
    \/ \E e \in Entries : LoadVotePage(e)
    \/ \E ratings \in PageRatings : VotePageSubmitVote(ratings)
    \/ ClearStorage
    \/ CreateSession
    \/ ClearAdminSession
    \/ \E vote \in NetworkSubmissions : SubmitVote(vote, NoFault)

SpecClient == Init /\ [][NextClient]_vars

\* The voted cache: one browser whose submissions can fail at the insert and
\* whose storage can be reset.
CacheFaults == {NoFault, [NoFault EXCEPT !.insert = "error"]}

NextCache ==
    \/ LoadHome
    \/ \E e \in Entries : HandleVoteClick(e)
    \/ \E ratings \in PageRatings, fault \in CacheFaults : HomeSubmit(ratings, fault)
    \/ \E e \in Entries : LoadVotePage(e)
    \/ \E ratings \in PageRatings, fault \in CacheFaults : VotePageSubmit(ratings, fault)
    \/ ClearStorage
    \/ ClearSession

SpecCache == Init /\ [][NextCache]_vars

\* Deletion of entries by the admin page, between votes of two voters.
DeleteSubmissions ==
    {Submission(e, id[1], id[2], Null, o, 4) :
        e \in Entries, id \in {<<"s1", "f1">>, <<"s2", "f2">>}, o \in {2, 5}}

NextDelete ==
    \/ \E vote \in DeleteSubmissions : SubmitVote(vote, ForeignKey(chili_entries, vote))
    \/ \E id \in Entries : DeleteChiliEntry(id)
    \/ \E ids \in SUBSET Entries : BulkDeleteChiliEntries(ids)
    \/ DeleteTestEntries

SpecDelete == Init /\ [][NextDelete]_vars

\* One mounted page whose submission is in flight: every awaited call of its
\* submitVote is a step, and the user keeps clicking.
NextInFlight ==
    \/ OpenHome
    \/ \E e \in Entries : OpenVotePage(e)
    \/ \E e \in Entries : HandleVoteClick(e)
    \/ CancelVote
    \/ \E p \in Procs, ratings \in PageRatings : ClickSubmit(p, ratings)
    \/ \E p \in Procs : SessionCheck(p)
    \/ \E p \in Procs : FingerprintCheck(p)
    \/ \E p \in Procs : InsertVote(p)
    \/ \E p \in Procs : InsertError(p)
    \/ \E p \in Procs : ReadRatings(p)
    \/ \E p \in Procs : WriteStats(p)
    \/ \E p \in Procs : SubmitEnds(p)
    \/ ClearStorage

SpecInFlight == Init /\ [][NextInFlight]_vars

\* The fingerprint of one browser: page loads of the home page, whose
\* initFingerprint() ends sooner or later, well or not, and votes meanwhile.
NextFingerprint ==
    \/ MountHome
    \/ \E outcome \in Outcomes : InitFingerprintEnds(outcome)
    \/ \E e \in Entries : HandleVoteClick(e)
    \/ \E ratings \in PageRatings, outcome \in Outcomes :
            HomeSubmitFingerprinted(ratings, outcome)
    \/ ClearStorage

SpecFingerprint == Init /\ [][NextFingerprint]_vars

\* Interleaved calls whose persistence calls can fail, with the time of every
\* insert told apart.
NextSnapshots ==
    \/ \E p \in Procs, vote \in ConcurrentSubmissions : Begin(p, vote)
    \/ \E p \in Procs : SessionCheck(p)
    \/ \E p \in Procs : FingerprintCheck(p)
    \/ \E p \in Procs : IpCheck(p)
    \/ \E p \in Procs : InsertVoteLater(p)
    \/ \E p \in Procs : InsertError(p)
    \/ \E p \in Procs : ReadRatings(p)
    \/ \E p \in Procs : ReadError(p)
    \/ \E p \in Procs : WriteStats(p)
    \/ \E p \in Procs : WriteError(p)

SpecSnapshots == Init /\ [][NextSnapshots]_vars

\* ================================================================ claims
\* the step is a submitVote call with a submission of the given set (the call
\* records its argument in call')
SubmitStepOf(submissions) ==
    call'.vote \in submissions /\ SubmitVote(call'.vote, NoFault)

\* a step of the duplicate-detection specification that is a submitVote call
SubmitStep == SubmitStepOf(Submissions)

\* some stored vote for the entry carries the session id / fingerprint / a
\* recent vote carries the ip address of the submission
SessionMatch(vote) == SessionRows(vote.chiliId, vote.sessionId) # {}
FingerprintMatch(vote) ==
    vote.deviceFingerprint # Null /\ FingerprintRows(vote.chiliId, vote.deviceFingerprint) # {}
RecentIpMatch(vote) ==
    vote.ipAddress # Null /\ RecentIpRows(vote.chiliId, vote.ipAddress, now) # {}

SameIdentity(v, w) ==
    /\ v.chiliId = w.chiliId
    /\ v.sessionId = w.sessionId
    /\ v.deviceFingerprint = w.deviceFingerprint
    /\ v.ipAddress = w.ipAddress

\* C1: a non-privileged submitVote that repeats the entry and the identity
\* bundle of the accepted non-privileged submitVote just before it is rejected
\* at the session or the fingerprint check and stores no vote.
C1_RepeatRejected ==
    [][(SubmitStep /\ result = "ok" /\ ~call.isAdmin /\ ~call'.isAdmin
            /\ SameIdentity(call.vote, call'.vote))
        => (result' \in {REASON_SESSION, REASON_DEVICE} /\ votes' = votes)]_vars

\* C2: a non-privileged submission without a device fingerprint whose session
\* id already has a stored vote for the entry is rejected with the session
\* reason and stores no vote.
C2_SessionCheckWithoutFingerprint ==
    [][(SubmitStep /\ ~call'.isAdmin /\ call'.vote.deviceFingerprint = Null
            /\ SessionMatch(call'.vote))
        => (result' = REASON_SESSION /\ votes' = votes)]_vars

\* C7: a submitVote made while the privileged session is authenticated runs no
\* validator check, is accepted and stored, and leaves the entry's vote_count
\* and total_score equal to the count and sum over its stored votes.
C7_AdminBypass ==
    [][(SubmitStep /\ call'.isAdmin)
        => LET e == call'.vote.chiliId
           IN  /\ checks' = <<>>
               /\ result' = "ok"
               /\ votes' = votes (+) SetToBag({NewRow(call'.vote, now)})
               /\ chili_entries'[e].vote_count = BagCardinality(VotesOf(votes', e))
               /\ chili_entries'[e].total_score = SumRatings(VotesOf(votes', e))]_vars

\* C7 witness: the privileged session has stored the same (entry, identity)
\* submission at least twice
C7_Witness ==
    /\ call.isAdmin
    /\ result = "ok"
    /\ CopiesIn(NewRow(call.vote, now), votes) >= 2

\* C8: the validator checks session, fingerprint, IP recency in this order and
\* stops at the first stored match: the reason is the one of the first
\* matching check and no later lookup is made.
C8_FirstFailingCheck ==
    [][(SubmitStep /\ ~call'.isAdmin /\ call'.vote.deviceFingerprint # Null)
        => LET v == call'.vote
           IN  /\ SessionMatch(v)
                    => (result' = REASON_SESSION /\ checks' = <<"session">>)
               /\ (~SessionMatch(v) /\ FingerprintMatch(v))
                    => (result' = REASON_DEVICE /\ checks' = <<"session", "fingerprint">>)
               /\ (~SessionMatch(v) /\ ~FingerprintMatch(v) /\ RecentIpMatch(v))
                    => (result' = REASON_IP
                        /\ checks' = <<"session", "fingerprint", "ip">>)]_vars

\* the aggregate fields the specification prescribes for a bag of votes:
\* count, sum, and the sum over the count rounded to one decimal (in tenths,
\* the nearest integer to 10 * sum / count, a half rounding up)
RoundedAverage(a, sum, n) ==
    /\ 20 * sum - n < 2 * n * a
    /\ 2 * n * a <= 20 * sum + n

\* C5: after any sequence of accepted submitVote calls the entry's vote_count
\* is their number, total_score the sum of their overall ratings and
\* average_rating that sum over that number rounded to one decimal.
C5_AggregatesAfterVotes ==
    \A e \in Entries :
        LET vs == VotesOf(votes, e)
            n == BagCardinality(vs)
        IN  /\ chili_entries[e].vote_count = n
            /\ chili_entries[e].total_score = SumRatings(vs)
            /\ n > 0 => RoundedAverage(chili_entries[e].average_rating, SumRatings(vs), n)
            /\ n = 0 => chili_entries[e].average_rating = 0

\* C5 witness: three votes 4, 5, 5 for one entry: 14 / 3 = 4.67 shows as 4.7
C5_Witness ==
    \E e \in Entries :
        /\ BagCardinality(VotesOf(votes, e)) = 3
        /\ chili_entries[e] = [vote_count |-> 3, total_score |-> 14, average_rating |-> 47]

ValidRating(x) == x \in 1..5

ValidRatings(vote) ==
    /\ ValidRating(vote.overallRating)
    /\ ValidRating(vote.categoryRatings.taste)
    /\ ValidRating(vote.categoryRatings.presentation)
    /\ ValidRating(vote.categoryRatings.creativity)
    /\ ValidRating(vote.categoryRatings.spiceBalance)

\* C6: a submission with a missing or out-of-range rating is rejected before
\* any duplicate check runs and stores no vote.
C6_RatingBounds ==
    [][(SubmitStepOf(UncheckedSubmissions) /\ ~ValidRatings(call'.vote))
        => (result' # "ok" /\ checks' = <<>> /\ votes' = votes)]_vars

\* C9: the IP check rejects only a non-privileged submission that carries an
\* ip address from which a vote for the same entry was stored no more than
\* five minutes ago.
C9_IpWindow ==
    [][(SubmitStepOf(TimedSubmissions) /\ result' = REASON_IP)
        => /\ ~call'.isAdmin
           /\ call'.vote.ipAddress # Null
           /\ \E r \in StoredRows :
                /\ r.chili_id = call'.vote.chiliId
                /\ r.ip_address = call'.vote.ipAddress
                /\ now - r.created_at <= FIVE_MINUTES]_vars

\* C9 witness: a submission was rejected by the IP check because of a vote
\* stored exactly five minutes earlier
C9_Witness ==
    /\ result = REASON_IP
    /\ \E r \in StoredRows :
            /\ r.chili_id = call.vote.chiliId
            /\ r.ip_address = call.vote.ipAddress
            /\ now - r.created_at = FIVE_MINUTES

\* the lookups of the last call that failed
FailedLookups == {c \in {"session", "fingerprint", "ip"} :
                    call.fault[c] # "ok" /\ \E i \in 1..Len(checks) : checks[i] = c}

\* C10: a submission during which a lookup of the validator failed is allowed
\* by the validator: it is never rejected as a duplicate.
C10_FailOpen ==
    (result # "none" /\ FailedLookups # {})
        => result \notin {REASON_SESSION, REASON_DEVICE, REASON_IP}

\* a step of the browser specification in which submitVote was called
ClientSubmitStep ==
    LET ratings == [overallRating |-> call'.vote.overallRating,
                    categoryRatings |-> call'.vote.categoryRatings]
    IN  \/ /\ page.chili # Null
           /\ call'.vote.chiliId = page.chili
           /\ ratings \in PageRatings
           /\ ~Unrated(ratings)
           /\ HomeSubmitVote(ratings) \/ VotePageSubmitVote(ratings)
        \/ SubmitStepOf(NetworkSubmissions)

\* C3: when a vote for the entry is stored with the fingerprint of a
\* non-privileged submission and none with its session id (the storage was
\* cleared, the session id is new), the submission is rejected at the
\* fingerprint check with the device reason.
C3_FingerprintPersists ==
    [][(ClientSubmitStep /\ ~call'.isAdmin
            /\ FingerprintMatch(call'.vote) /\ ~SessionMatch(call'.vote))
        => (result' = REASON_DEVICE /\ votes' = votes)]_vars

\* no stored vote for the submission's entry carries its session id, its
\* fingerprint or its ip address
NoStoredVoteFor(vote) ==
    \A r \in StoredRows :
        r.chili_id = vote.chiliId
            => /\ r.session_id # vote.sessionId
               /\ vote.deviceFingerprint = Null \/ r.device_fingerprint # vote.deviceFingerprint
               /\ vote.ipAddress = Null \/ r.ip_address # vote.ipAddress

\* C4: votes stored for other entries never block a submission: a
\* non-privileged submission for an entry that has no stored vote from its
\* session, device or address is accepted and stored, and the voted cache
\* gains an entry only by an accepted vote for that very entry.
C4_CrossEntryIndependence ==
    [][/\ (ClientSubmitStep /\ ~call'.isAdmin /\ NoStoredVoteFor(call'.vote))
            => (result' = "ok"
                /\ votes' = votes (+) SetToBag({NewRow(call'.vote, now)}))
       /\ \A e \in Entries :
            (~HasVoted(localStorage, e) /\ HasVoted(localStorage', e))
                => (ClientSubmitStep /\ call'.vote.chiliId = e /\ result' = "ok")]_vars

\* C4 witness: the browser voted for one entry and then, with the same session
\* id and fingerprint, for the other; both votes are stored and cached
C4_Witness ==
    /\ result = "ok"
    /\ ~call.isAdmin
    /\ Len(localStorage.voted_chilis) = 2
    /\ \E r1, r2 \in StoredRows :
            /\ r1.chili_id # r2.chili_id
            /\ r1.session_id = r2.session_id
            /\ r1.session_id = localStorage.chili_voter_session
            /\ r1.device_fingerprint = VisitorId
            /\ r2.device_fingerprint = VisitorId

\* a submitVote call of the aggregate-failure specification
StatsSubmitStep ==
    /\ call'.vote \in StatsSubmissions
    /\ call'.fault \in StatsFaults
    /\ SubmitVote(call'.vote, call'.fault)

\* the aggregate fields computed over all stored votes of an entry
AggregatesOf(table, chiliId) ==
    LET vs == VotesOf(table, chiliId)
        n == BagCardinality(vs)
    IN  [vote_count |-> n, total_score |-> SumRatings(vs),
         average_rating |-> IF n > 0 THEN RoundTenths(SumRatings(vs), n) ELSE 0]

\* no entry counts more votes than are stored for it
StatsBackedByVotes ==
    \A e \in Entries : chili_entries[e].vote_count <= BagCardinality(VotesOf(votes, e))

\* C11: when the insert fails, submitVote fails, updateChiliStats is not
\* invoked and neither table changes; and no entry ever counts a vote that
\* is not stored.
C11_InsertFailure ==
    /\ []StatsBackedByVotes
    /\ [][(StatsSubmitStep /\ call'.fault.insert # "ok")
            => /\ result' # "ok"
               /\ ~call'.recomputed
               /\ votes' = votes
               /\ chili_entries' = chili_entries]_vars

\* C11 witness: an insert failed after the validator had let the vote pass,
\* with votes already stored
C11_Witness ==
    /\ result = INSERT_ERROR
    /\ call.fault.insert # "ok"
    /\ ~call.isAdmin
    /\ checks = <<"session", "fingerprint">>
    /\ votes # EmptyBag

\* C12: when the recompute fails after the insert, submitVote returns
\* normally, the vote is stored and the aggregates stay as they were.
C12_StatsFailureSwallowed ==
    [][(StatsSubmitStep /\ call'.recomputed
            /\ (call'.fault.read # "ok" \/ call'.fault.write # "ok"))
        => /\ result' = "ok"
           /\ votes' = votes (+) SetToBag({NewRow(call'.vote, now)})
           /\ chili_entries' = chili_entries]_vars

\* C12 witness: a vote was accepted whose aggregate write failed, and the
\* entry's aggregates are behind its votes
C12_Witness ==
    /\ result = "ok"
    /\ call.recomputed
    /\ call.fault.write # "ok"
    /\ Stale(chili_entries, votes, call.vote.chiliId)

\* C13: a recompute that succeeds sets the entry's three aggregate fields to
\* the values over all its stored votes, whatever recomputes failed before.
C13_NextRecomputeRepairs ==
    [][(StatsSubmitStep /\ call'.recomputed
            /\ call'.fault.read = "ok" /\ call'.fault.write = "ok")
        => chili_entries'[call'.vote.chiliId] = AggregatesOf(votes', call'.vote.chiliId)]_vars

\* C13 witness: the aggregates were behind when the call began and the call's
\* recompute brought them up to three stored votes
C13_Witness ==
    /\ call.stale
    /\ call.recomputed
    /\ call.fault = NoFault
    /\ chili_entries[call.vote.chiliId].vote_count = 3
    /\ ~Stale(chili_entries, votes, call.vote.chiliId)

\* average_rating is total_score over vote_count rounded to one decimal, and
\* 0 without votes
AverageConsistent(entry) ==
    IF entry.vote_count > 0
    THEN RoundedAverage(entry.average_rating, entry.total_score, entry.vote_count)
    ELSE entry.average_rating = 0

\* C14: in every state every entry's average_rating is round(total_score /
\* vote_count, 1), or 0 when vote_count is 0; and an update of an entry's
\* aggregates writes all three fields from one set of votes.
C14_AverageInvariant ==
    /\ [](\A e \in Entries : AverageConsistent(chili_entries[e]))
    /\ [][\A e \in Entries :
            chili_entries'[e] # chili_entries[e]
                => chili_entries'[e] = AggregatesOf(votes', e)]_vars

\* C14 witness: an entry whose aggregates are behind its votes and whose
\* average is not a whole number (2 and 5 give 3.5)
C14_Witness ==
    \E e \in Entries :
        /\ Stale(chili_entries, votes, e)
        /\ chili_entries[e] = [vote_count |-> 2, total_score |-> 7, average_rating |-> 35]

\* every call that was started has returned
AllCompleted == \A p \in Procs : calls[p].pc \in {"idle", "done"}

\* C15 as stated: once all interleaved calls have returned, every entry's
\* vote_count and total_score are the count and the sum over its stored votes.
C15_ConcurrentAggregates ==
    AllCompleted
        => \A e \in Entries :
                /\ chili_entries[e].vote_count = BagCardinality(VotesOf(votes, e))
                /\ chili_entries[e].total_score = SumRatings(VotesOf(votes, e))

\* C15 amended: once all interleaved calls have returned, every entry's
\* vote_count and total_score are the count and the sum over some of its
\* stored votes (those stored when the recompute that wrote last did its
\* read), at least one of them if the entry has votes.
C15_AggregatesOfSomeRead ==
    AllCompleted
        => \A e \in Entries :
                \E seen \in SubBag(VotesOf(votes, e)) :
                    /\ chili_entries[e].vote_count = BagCardinality(seen)
                    /\ chili_entries[e].total_score = SumRatings(seen)
                    /\ chili_entries[e].average_rating =
                            IF seen = EmptyBag THEN 0
                            ELSE RoundTenths(SumRatings(seen), BagCardinality(seen))
                    /\ VotesOf(votes, e) # EmptyBag => seen # EmptyBag

\* C15 witness: two accepted calls for one entry have returned and the entry
\* counts one vote: the write of the older read landed last
C15_Witness ==
    /\ \A p \in Procs : calls[p].pc = "done" /\ calls[p].result = "ok"
                          /\ calls[p].vote.chiliId = "e1"
    /\ BagCardinality(VotesOf(votes, "e1")) = 2
    /\ chili_entries["e1"].vote_count = 1

\* the call's vote was inserted
Accepted(p) ==
    \/ calls[p].pc \in {"read", "write"}
    \/ calls[p].pc = "done" /\ calls[p].result = "ok"

\* C16: of two interleaved non-privileged calls for the same entry with the
\* same session id and device fingerprint at most one is accepted, so at most
\* one vote of that identity is stored for the entry.
C16_ConcurrentDuplicate ==
    \A p, q \in Procs :
        (/\ p # q
         /\ ~calls[p].isAdmin /\ ~calls[q].isAdmin
         /\ calls[p].vote.deviceFingerprint # Null
         /\ SameIdentity(calls[p].vote, calls[q].vote)
         /\ Accepted(p))
            => /\ ~Accepted(q)
               /\ RowCount(SessionRows(calls[p].vote.chiliId, calls[p].vote.sessionId)) = 1

\* the stored privileged session has not been cleared and, at time t, the
\* expiry test of isAuthenticated() has not struck yet
SessionAlive(ls, t) ==
    ls.chili_admin_session.stored /\ t <= ls.chili_admin_session.expires

\* C17 as stated: isAuthenticated() is true exactly while a created session
\* is stored and less than 24 hours old; from 24 hours after its creation on
\* it is false, and stays false until createSession().
C17_ExpiresAtDuration ==
    [][/\ SubmitStepOf(AdminSubmissions)
            => /\ call'.isAdmin <=> (/\ localStorage.chili_admin_session.stored
                                      /\ now < localStorage.chili_admin_session.expires)
               /\ ~call'.isAdmin => localStorage'.chili_admin_session = NoAdminSession
       /\ (/\ localStorage'.chili_admin_session # localStorage.chili_admin_session
           /\ localStorage'.chili_admin_session.stored)
            => localStorage'.chili_admin_session =
                   [stored |-> TRUE, authenticated |-> TRUE, expires |-> now + SESSION_DURATION]
      ]_vars

\* C17 amended: isAuthenticated() is true exactly while a created session is
\* stored and at most 24 hours old (at exactly 24 hours it is still true);
\* later it is false, the session is removed, and it stays false until
\* createSession(), which stores a session expiring 24 hours later.
C17_SessionLifetime ==
    [][/\ SubmitStepOf(AdminSubmissions)
            => /\ call'.isAdmin <=> SessionAlive(localStorage, now)
               /\ ~call'.isAdmin => localStorage'.chili_admin_session = NoAdminSession
       /\ (/\ localStorage'.chili_admin_session # localStorage.chili_admin_session
           /\ localStorage'.chili_admin_session.stored)
            => localStorage'.chili_admin_session =
                   [stored |-> TRUE, authenticated |-> TRUE, expires |-> now + SESSION_DURATION]
      ]_vars

\* C17 witness: a vote was stored under the bypass exactly 24 hours after the
\* session was created
C17_Witness ==
    /\ call.isAdmin
    /\ result = "ok"
    /\ localStorage.chili_admin_session.stored
    /\ now = localStorage.chili_admin_session.expires
    /\ NewRow(call.vote, now) \in StoredRows

\* C18: once the privileged session has ended, by logout or by expiry,
\* isAuthenticated() is false and every submitVote goes through the
\* validator again, beginning with its session check.
C18_BypassEndsWithSession ==
    [][(SubmitStepOf(AdminSubmissions) /\ ~SessionAlive(localStorage, now))
        => /\ ~call'.isAdmin
           /\ checks' # <<>>
           /\ checks'[1] = "session"]_vars

\* a step in which one of the two pages called submitVote (the call records
\* its argument in call')
PageSubmitStep ==
    LET ratings == [overallRating |-> call'.vote.overallRating,
                    categoryRatings |-> call'.vote.categoryRatings]
    IN  /\ page.chili # Null
        /\ call'.vote.chiliId = page.chili
        /\ ratings \in PageRatings
        /\ ~Unrated(ratings)
        /\ HomeSubmitVote(ratings) \/ VotePageSubmitVote(ratings)

\* contents the voted cache can have
CacheContents == {<<>>, <<"e1">>, <<"e2">>, <<"e1", "e2">>}

\* submissions this browser can make: by its pages, with and without the
\* fingerprint, and by the callers that pass its address
CacheProbes ==
    NetworkSubmissions
    \cup {PageSubmission(e, localStorage.chili_voter_session, f, Ratings(4, 4)) :
            e \in Entries, f \in {Null, VisitorId}}

\* submitVote ends the same way whatever the voted cache holds
CacheIgnoredBySubmitVote ==
    \A vote \in CacheProbes, cache \in CacheContents :
        LET with == SubmitVoteCall([localStorage EXCEPT !.voted_chilis = cache], vote, NoFault)
            asIs == SubmitVoteCall(localStorage, vote, NoFault)
        IN  with.result = asIs.result /\ with.votes = asIs.votes

\* a vote for the submission's entry is stored that carries its session id
\* or the fingerprint of the device the browser runs on
DuplicateOnDevice(vote) ==
    \E r \in StoredRows :
        /\ r.chili_id = vote.chiliId
        /\ r.session_id = vote.sessionId \/ r.device_fingerprint = VisitorId

\* C19: the voted cache has no authority: submitVote ends the same way
\* whatever the cache holds, and a page whose cache does not list the entry
\* (empty, cleared) still gets a duplicate rejected.
C19_CacheNoAuthority ==
    /\ []CacheIgnoredBySubmitVote
    /\ [][(PageSubmitStep /\ ~call'.isAdmin /\ DuplicateOnDevice(call'.vote))
            => (result' # "ok" /\ votes' = votes)]_vars

\* the reasons of the validator
Reasons == {REASON_SESSION, REASON_DEVICE, REASON_IP}

\* C20: when submitVote rejects a vote, the error it throws carries the
\* reason of the failed check, and the page that submitted shows that reason.
C20_ReasonReachesUser ==
    [][/\ (ClientSubmitStep /\ votes' = votes) => result' \in Reasons
       /\ (PageSubmitStep /\ result' # "ok")
            => (result' \in Reasons /\ page'.message = result')]_vars

\* C20 witness: the home page shows the device reason after the storage was
\* cleared and the same device voted again
C20_Witness ==
    /\ page.route = "/"
    /\ page.message = REASON_DEVICE
    /\ result = REASON_DEVICE
    /\ call.vote.sessionId = localStorage.chili_voter_session
    /\ ~HasVoted(localStorage, call.vote.chiliId)

\* a step of the cache specification in which one of the two pages called
\* submitVote
CacheSubmitStep ==
    LET ratings == [overallRating |-> call'.vote.overallRating,
                    categoryRatings |-> call'.vote.categoryRatings]
    IN  /\ page.chili # Null
        /\ call'.vote.chiliId = page.chili
        /\ ratings \in PageRatings
        /\ ~Unrated(ratings)
        /\ call'.fault \in CacheFaults
        /\ HomeSubmit(ratings, call'.fault) \/ VotePageSubmit(ratings, call'.fault)

\* C21: after a submission from a page succeeded the voted cache lists its
\* entry; an entry stays listed until the storage is cleared; opening the vote
\* page for a listed entry shows the already-voted message and no form; and
\* the cache gains an entry only by a submission for it that succeeded.
C21_VotedCache ==
    [][/\ (CacheSubmitStep /\ result' = "ok")
            => HasVoted(localStorage', call'.vote.chiliId)
       /\ \A e \in Entries :
            /\ (HasVoted(localStorage, e) /\ ~HasVoted(localStorage', e))
                    => (ClearStorage \/ ClearSession)
            /\ (HasVoted(localStorage, e) /\ LoadVotePage(e))
                    => (page'.message = ALREADY_VOTED /\ page'.chili = Null)
            /\ (~HasVoted(localStorage, e) /\ HasVoted(localStorage', e))
                    => (CacheSubmitStep /\ call'.vote.chiliId = e /\ result' = "ok")
      ]_vars

\* C21 witness: the vote page shows the already-voted message for the entry
\* the browser voted for, while its submission for the other entry failed at
\* the insert and left that entry unlisted
C21_Witness ==
    /\ page = [route |-> "/vote", chili |-> Null, message |-> ALREADY_VOTED]
    /\ HasVoted(localStorage, "e1")
    /\ result = INSERT_ERROR
    /\ call.vote.chiliId = "e2"
    /\ ~HasVoted(localStorage, "e2")

\* C22: deleting entries deletes every vote that references them: the step
\* that removes an entry leaves no vote for it, and in every state every
\* stored vote refers to an entry that exists.
C22_CascadeDelete ==
    /\ [](\A r \in StoredRows : r.chili_id \in DOMAIN chili_entries)
    /\ [][\A e \in DOMAIN chili_entries \ DOMAIN chili_entries' :
            VotesOf(votes', e) = EmptyBag]_vars

\* C22 witness: the entry of the last accepted vote is deleted, no vote for it
\* is left, and the votes of the other entry are still stored
C22_Witness ==
    /\ result = "ok"
    /\ call.vote.chiliId \notin DOMAIN chili_entries
    /\ VotesOf(votes, call.vote.chiliId) = EmptyBag
    /\ votes # EmptyBag

\* every row stored before the step is stored after it, as often as before
RowsKept ==
    \A r \in StoredRows : CopiesIn(r, votes') >= CopiesIn(r, votes)

\* C23: a stored vote is immutable: a submitVote, whether it is rejected,
\* fails or is accepted, with its validator lookups and its recompute, leaves
\* every stored row as it is; an accepted one adds exactly one row, the new
\* vote, and any other adds none.
C23_VotesImmutable ==
    [][StatsSubmitStep
        => /\ RowsKept
           /\ result' = "ok"
                => /\ BagCardinality(votes') = BagCardinality(votes) + 1
                   /\ CopiesIn(NewRow(call'.vote, now), votes')
                        = CopiesIn(NewRow(call'.vote, now), votes) + 1
           /\ result' # "ok" => votes' = votes]_vars

\* C23 witness: an accepted vote was stored next to an earlier vote of the
\* same session for the same entry that carries another rating
C23_Witness ==
    /\ result = "ok"
    /\ \E r \in StoredRows :
            /\ r.chili_id = call.vote.chiliId
            /\ r.session_id = call.vote.sessionId
            /\ r.overall_rating # call.vote.overallRating
    /\ NewRow(call.vote, now) \in StoredRows

\* C24: a non-privileged submission (one that carries a fingerprint, so that
\* the validator runs) is rejected at the session check when at least one
\* stored vote for the entry carries its session id, and at the fingerprint
\* check when none does but at least one carries its fingerprint, however
\* many such votes are stored.
C24_RejectedHoweverMany ==
    [][(SubmitStep /\ ~call'.isAdmin /\ call'.vote.deviceFingerprint # Null)
        => /\ SessionMatch(call'.vote)
                => (result' = REASON_SESSION /\ votes' = votes)
           /\ (~SessionMatch(call'.vote) /\ FingerprintMatch(call'.vote))
                => (result' = REASON_DEVICE /\ votes' = votes)]_vars

\* C25: a submission the validator rejects has no effect on the tables: the
\* votes and every entry's aggregates are after the call what they were
\* before it, and updateChiliStats is not invoked.
C25_RejectionNoEffect ==
    [][(StatsSubmitStep /\ result' \in Reasons)
        => /\ votes' = votes
           /\ chili_entries' = chili_entries
           /\ ~call'.recomputed]_vars

\* C25 witness: a submission was rejected while the aggregates of its entry
\* were behind its votes, and they still are
C25_Witness ==
    /\ result \in Reasons
    /\ ~call.recomputed
    /\ call.stale
    /\ Stale(chili_entries, votes, call.vote.chiliId)

\* C26: while a submission started from a page is in flight the page starts
\* no second one: the voting flag is set exactly while a call of the page is
\* in flight, at most one is, and the flag is cleared when the submission
\* ends, whether it succeeded, was rejected or failed.
C26_OneSubmissionInFlight ==
    /\ [](Cardinality(InFlight) <= 1 /\ (voting <=> InFlight # {}))
    /\ [][\A p \in Procs :
            (calls[p].pc = "done" /\ calls'[p].pc = "idle") => ~voting']_vars

\* C26 witness: the form is open for the entry of the call in flight (after
\* Cancel and a new click on the entry), the flag is set, the insert is
\* awaited; an earlier submission of the page had been rejected
C26_Witness ==
    /\ voting
    /\ \E p \in Procs :
            /\ calls[p].pc = "insert"
            /\ page.chili = calls[p].vote.chiliId
            /\ calls[p].vote.deviceFingerprint # Null
    /\ page.message = REASON_DEVICE

\* C27: getSessionId() in the browser is stable: with a token stored it
\* returns that token and writes nothing; with none stored it generates a
\* token no vote carries yet, stores it and returns it; the stored token
\* changes by nothing else than that and the clearing of the storage, after
\* which no token is stored.
C27_SessionIdStable ==
    [][/\ CacheSubmitStep
            => LET stored == localStorage.chili_voter_session
                   returned == call'.vote.sessionId
               IN  /\ stored # Null
                        => /\ returned = stored
                           /\ localStorage'.chili_voter_session = stored
                           /\ generated' = generated
                   /\ stored = Null
                        => /\ returned # Null
                           /\ localStorage'.chili_voter_session = returned
                           /\ generated' = generated + 1
                           /\ \A r \in StoredRows : r.session_id # returned
       /\ localStorage'.chili_voter_session # localStorage.chili_voter_session
            => \/ ClearStorage
               \/ ClearSession
               \/ CacheSubmitStep /\ localStorage.chili_voter_session = Null
       /\ (ClearStorage \/ ClearSession) => localStorage'.chili_voter_session = Null
      ]_vars

\* C27 witness: two votes of the first token are stored, the storage was
\* cleared, and the last vote carries the second token, which is stored now
C27_Witness ==
    /\ result = "ok"
    /\ call.vote.sessionId = Token(2)
    /\ localStorage.chili_voter_session = Token(2)
    /\ RowCount({r \in StoredRows : r.session_id = Token(1)}) = 2

\* a step in which the home page called getFingerprint() and submitVote
FingerprintedSubmitStep ==
    LET ratings == [overallRating |-> call'.vote.overallRating,
                    categoryRatings |-> call'.vote.categoryRatings]
    IN  /\ page.chili # Null
        /\ call'.vote.chiliId = page.chili
        /\ ratings \in PageRatings
        /\ ~Unrated(ratings)
        /\ \E outcome \in Outcomes : HomeSubmitFingerprinted(ratings, outcome)

\* C28 as stated: between two page loads the fingerprint is computed at most
\* once, and all submissions in between carry the same fingerprint.
C28_ComputedOncePerLoad ==
    /\ fingerprinting.computed <= 1
    /\ Cardinality(fingerprinting.carried) <= 1

\* C28 amended: a getFingerprint() that finds a fingerprint stored returns it
\* and computes nothing; one that finds none computes, stores and returns one;
\* besides that only the initFingerprint() of a page load computes; a
\* computation stores the visitor id, or the fallback when the library failed.
C28_StoredFingerprintReused ==
    [][/\ FingerprintedSubmitStep
            => LET stored == localStorage.device_fingerprint
                   passed == call'.vote.deviceFingerprint
               IN  /\ stored # Null
                        => /\ passed = stored
                           /\ localStorage'.device_fingerprint = stored
                           /\ fingerprinting'.computed = fingerprinting.computed
                   /\ stored = Null
                        => /\ passed = localStorage'.device_fingerprint
                           /\ fingerprinting'.computed = fingerprinting.computed + 1
       /\ fingerprinting'.computed > fingerprinting.computed
            => /\ \/ localStorage.device_fingerprint = Null
                  \/ fingerprinting.inFlight /\ ~fingerprinting'.inFlight
               /\ localStorage'.device_fingerprint =
                    IF fingerprinting'.last = "failed" THEN FallbackId ELSE VisitorId
      ]_vars

\* C28 witness: without any clearing of the storage, a vote was made before
\* the initFingerprint() of the page load had ended: getFingerprint() computed
\* the visitor id, then the page load's computation failed and stored the
\* fallback, which the next vote carried
C28_Witness ==
    /\ generated = 1
    /\ localStorage.chili_voter_session = Token(1)
    /\ fingerprinting.computed = 2
    /\ fingerprinting.carried = {VisitorId, FallbackId}
    /\ localStorage.device_fingerprint = FallbackId
    /\ call.vote.deviceFingerprint = FallbackId
    /\ result = "ok"

\* the votes of an entry that were stored at time t
SnapshotAt(chiliId, t) ==
    LET rows == {r \in StoredRows : r.chili_id = chiliId /\ r.created_at <= t}
    IN  [r \in rows |-> votes[r]]

\* C29: while no vote is deleted, in every state, also between the steps of
\* interleaved calls and after failed recomputes, an entry's vote_count is at
\* most the number of its stored votes, and its vote_count and total_score are
\* the count and the rating sum of the votes that were stored for it at some
\* moment up to now.
C29_AggregatesOfASnapshot ==
    \A e \in Entries :
        /\ chili_entries[e].vote_count <= BagCardinality(VotesOf(votes, e))
        /\ \E t \in 0..now :
                /\ chili_entries[e].vote_count = BagCardinality(SnapshotAt(e, t))
                /\ chili_entries[e].total_score = SumRatings(SnapshotAt(e, t))

\* C29 witness: three votes are stored for an entry, every call has returned,
\* and the entry still shows the two votes an earlier read had seen
C29_Witness ==
    /\ AllCompleted
    /\ BagCardinality(VotesOf(votes, "e1")) = 3
    /\ chili_entries["e1"].vote_count = 2

\* C30: an entry's vote_count, total_score and average_rating change only in
\* a submitVote call that stored a vote and whose recompute ran, and then
\* only those of the voted entry, to the values over its stored votes; a step
\* of the update route or of the photo upload route, which changes
\* descriptive or photo columns, leaves the aggregates of every entry and the
\* votes as they were.
C30_AggregatesWrittenByRecompute ==
    [][ /\ (chili_entries' # chili_entries
              => /\ call'.recomputed
                 /\ votes' = votes (+) SetToBag({NewRow(call'.vote, now)})
                 /\ chili_entries' =
                        [chili_entries EXCEPT ![call'.vote.chiliId] =
                            AggregatesOf(votes', call'.vote.chiliId)]
                 /\ entry_details' = entry_details)
        /\ (entry_details' # entry_details
              => /\ chili_entries' = chili_entries
                 /\ votes' = votes)
      ]_vars

\* C30 witness: the first entry was renamed, described anew and given a
\* photo, and its aggregates are those of its two stored votes
C30_Witness ==
    /\ entry_details["e1"].name \in EntryNames
    /\ entry_details["e1"].description = "d1"
    /\ entry_details["e1"].photo_url \in PhotoUrls
    /\ BagCardinality(VotesOf(votes, "e1")) = 2
    /\ chili_entries["e1"] = AggregatesOf(votes, "e1")

====
